---- MODULE Spec2Model ----
(***************************************************************************)
(* Word Clock: the time -> word encoder, the button debounce / hold-repeat *)
(* state machine and the RTC synchronisation policy of the Arduino sketch. *)
(* One action models one call of setup() or one call of loop().            *)
(***************************************************************************)
EXTENDS Integers, Sequences, FiniteSets, TLC

(***************************************************************************)
(* Program constants                                                       *)
(***************************************************************************)
BUTTON_DEBOUNCE_MS == 50
BUTTON_HOLD_ACTION_REPEAT_PERIOD == 1000
BUTTON_INACTION_RTC_UPDATE_DELAY == 5000
RTC_QUERY_PERIOD_MILLIS == 5000
REGISTER_STROBE_DURATION_MS == 2
RTC_RESET_YEAR == 2017
RTC_RESET_MONTH == 1
RTC_RESET_DAY == 1
RTC_RESET_HOUR == 0
RTC_RESET_MINUTE == 0
RTC_RESET_SECOND == 0
MS_PER_SECOND == 1000

\* Arduino pin levels: a pressed button reads LOW (pulled up, switched to GND)
LOW == 0
HIGH == 1

\* word_bit_map: the bit position of each word in localWordRegister
TEN_M == 20
HALF_M == 19
QUARTER_M == 18
TWENTY_M == 17
FIVE_M == 16
MINUTES == 15
PAST == 14
TO == 13
ONE_H == 12
TWO_H == 11
THREE_H == 10
FOUR_H == 9
FIVE_H == 8
SIX_H == 7
SEVEN_H == 6
EIGHT_H == 5
NINE_H == 4
TEN_H == 3
ELEVEN_H == 2
TWELVE_H == 1
OCLOCK == 0

\* uint8_t arithmetic wraps at 256
Uint8Modulus == 256

(***************************************************************************)
(* Bounds of the model                                                     *)
(***************************************************************************)
\* width in bits of the millisecond counter (unsigned long) in the model
MillisBits == 16
\* number of loop() calls explored after setup()
MaxTicks == 5
\* number of loop() calls explored while the minute button is kept pressed
MaxHoldTicks == 64
\* number of loop() calls explored with bouncing contacts
MaxBounceTicks == 5
\* number of loop() calls explored with an RTC that may stop answering
MaxFailTicks == 4
\* number of loop() calls of the earlier version explored
MaxInoTicks == 4

MillisModulus == 2 ^ MillisBits

\* unsigned arithmetic on the millisecond counter
MillisAdd(a, b) == (a + b) % MillisModulus
MillisSub(a, b) == (a - b) % MillisModulus

(***************************************************************************)
(* State                                                                   *)
(***************************************************************************)
VARIABLES
  pc,                      \* "boot" before setup() has run, "run" afterwards
  now,                     \* the value millis() returns (modulo MillisModulus)
  \* globals of the sketch
  currentHour, currentMinute, currentSecond,
  lastRTCQueryTime, timeLocallyUpdated, localWordRegister,
  \* statics of handleTimeAdjustButtons
  lastHourButtonChange, lastMinuteButtonChange,
  lastHourButtonValue, lastMinuteButtonValue,
  hourButtonBeingHeld, minuteButtonBeingHeld,
  nextHourAdvanceTime, nextMinuteAdvanceTime, updateRTCTime,
  \* the DS3231: time of day it holds, and its lost-power flag
  rtcSeconds, rtcMillis, rtcLostPower,
  rtcDate,                 \* the date it holds: the date last set, plus days
  rtcAvailable,            \* the chip answers on the I2C bus
  rtcFailedRead,           \* what the library hands back while it does not
  \* what the last call of setup()/loop() did, in order: "advanceHour",
  \* "advanceMinute", "rtc.now(date)", "rtc.adjust", "rtc.now(time)"
  trace,
  \* the last rtc.adjust: its arguments and the canonical time at that moment
  lastWrite,
  \* observers in real elapsed time (not wrapped)
  clock,                   \* milliseconds elapsed since power-up
  ticks,                   \* calls of loop() so far
  hourLevel, minuteLevel,  \* the levels sampled by the last call of loop()
  hourLevelSince, minuteLevelSince,   \* when the sampled level last changed
  hourFast, minuteFast,    \* the level never stayed longer than the debounce
  hourEvents, minuteEvents,           \* advance events so far, per button
  lastHourEventAt, lastMinuteEventAt, \* when each button last fired (-1: never)
  lastReadAt, prevReadAt   \* when the RTC was last read into the canonical
                           \* time, and the time before that (-1: never)

progVars ==
  <<currentHour, currentMinute, currentSecond, lastRTCQueryTime,
    timeLocallyUpdated, localWordRegister, lastHourButtonChange,
    lastMinuteButtonChange, lastHourButtonValue, lastMinuteButtonValue,
    hourButtonBeingHeld, minuteButtonBeingHeld, nextHourAdvanceTime,
    nextMinuteAdvanceTime, updateRTCTime>>

rtcVars ==
  <<rtcSeconds, rtcMillis, rtcLostPower, rtcDate, rtcAvailable, rtcFailedRead>>

obsVars ==
  <<trace, lastWrite, clock, ticks, hourLevel, minuteLevel, hourLevelSince,
    minuteLevelSince, hourFast, minuteFast, hourEvents, minuteEvents,
    lastHourEventAt, lastMinuteEventAt, lastReadAt, prevReadAt>>

vars == <<pc, now, progVars, rtcVars, obsVars>>

\* the program's and the chip's state as one record, threaded through a call
State ==
  [currentHour |-> currentHour, currentMinute |-> currentMinute,
   currentSecond |-> currentSecond, lastRTCQueryTime |-> lastRTCQueryTime,
   timeLocallyUpdated |-> timeLocallyUpdated,
   localWordRegister |-> localWordRegister,
   lastHourButtonChange |-> lastHourButtonChange,
   lastMinuteButtonChange |-> lastMinuteButtonChange,
   lastHourButtonValue |-> lastHourButtonValue,
   lastMinuteButtonValue |-> lastMinuteButtonValue,
   hourButtonBeingHeld |-> hourButtonBeingHeld,
   minuteButtonBeingHeld |-> minuteButtonBeingHeld,
   nextHourAdvanceTime |-> nextHourAdvanceTime,
   nextMinuteAdvanceTime |-> nextMinuteAdvanceTime,
   updateRTCTime |-> updateRTCTime,
   rtcSeconds |-> rtcSeconds, rtcMillis |-> rtcMillis,
   rtcLostPower |-> rtcLostPower, rtcDate |-> rtcDate,
   rtcAvailable |-> rtcAvailable, rtcFailedRead |-> rtcFailedRead,
   trace |-> <<>>, lastWrite |-> lastWrite]

SECONDS_PER_DAY == 86400

HourWords ==
  {ONE_H, TWO_H, THREE_H, FOUR_H, FIVE_H, SIX_H,
   SEVEN_H, EIGHT_H, NINE_H, TEN_H, ELEVEN_H, TWELVE_H}

MinuteWords == {FIVE_M, TEN_M, QUARTER_M, TWENTY_M, HALF_M}

(***************************************************************************)
(* WordEncoder.  localWordRegister is a 32-bit mask; it is modelled as the *)
(* set of the bit positions that are raised (all positions are <= 20).     *)
(***************************************************************************)
\* slip: the register is not cleared, the words of the previous call stay
disableAllWords_Keeps == localWordRegister

disableAllWords == {}

enableWord(register, theWord) == register \cup {theWord}

\* the switch of the "past" branch: the word of the hour itself
PastHourWord(hour) ==
  CASE hour = 1 -> {ONE_H}
    [] hour = 2 -> {TWO_H}
    [] hour = 3 -> {THREE_H}
    [] hour = 4 -> {FOUR_H}
    [] hour = 5 -> {FIVE_H}
    [] hour = 6 -> {SIX_H}
    [] hour = 7 -> {SEVEN_H}
    [] hour = 8 -> {EIGHT_H}
    [] hour = 9 -> {NINE_H}
    [] hour = 10 -> {TEN_H}
    [] hour = 11 -> {ELEVEN_H}
    [] hour = 12 -> {TWELVE_H}
    [] OTHER -> {}

\* the switch of the "to" branch: the word of the next hour
ToHourWord(hour) ==
  CASE hour = 1 -> {TWO_H}
    [] hour = 2 -> {THREE_H}
    [] hour = 3 -> {FOUR_H}
    [] hour = 4 -> {FIVE_H}
    [] hour = 5 -> {SIX_H}
    [] hour = 6 -> {SEVEN_H}
    [] hour = 7 -> {EIGHT_H}
    [] hour = 8 -> {NINE_H}
    [] hour = 9 -> {TEN_H}
    [] hour = 10 -> {ELEVEN_H}
    [] hour = 11 -> {TWELVE_H}
    [] hour = 12 -> {ONE_H}
    [] OTHER -> {}

\* slip: "twenty five past" loses its FIVE
MinutePhrase_TwentyPast(minute) ==
  IF minute < 5 THEN {OCLOCK}
  ELSE IF minute >= 5 /\ minute < 10 THEN {FIVE_M}
  ELSE IF minute >= 10 /\ minute < 15 THEN {TEN_M}
  ELSE IF minute >= 15 /\ minute < 20 THEN {QUARTER_M}
  ELSE IF minute >= 20 /\ minute < 25 THEN {TWENTY_M}
  ELSE IF minute >= 25 /\ minute < 30 THEN {TWENTY_M}
  ELSE IF minute >= 30 /\ minute < 35 THEN {HALF_M}
  ELSE IF minute >= 35 /\ minute < 40 THEN {TWENTY_M, FIVE_M}
  ELSE IF minute >= 40 /\ minute < 45 THEN {TWENTY_M}
  ELSE IF minute >= 45 /\ minute < 50 THEN {QUARTER_M}
  ELSE IF minute >= 50 /\ minute < 55 THEN {TEN_M}
  ELSE IF minute >= 55 THEN {FIVE_M}
  ELSE {}

MinutePhrase(minute) ==
  IF minute < 5 THEN {OCLOCK}
  ELSE IF minute >= 5 /\ minute < 10 THEN {FIVE_M}
  ELSE IF minute >= 10 /\ minute < 15 THEN {TEN_M}
  ELSE IF minute >= 15 /\ minute < 20 THEN {QUARTER_M}
  ELSE IF minute >= 20 /\ minute < 25 THEN {TWENTY_M}
  ELSE IF minute >= 25 /\ minute < 30 THEN {TWENTY_M, FIVE_M}
  ELSE IF minute >= 30 /\ minute < 35 THEN {HALF_M}
  ELSE IF minute >= 35 /\ minute < 40 THEN {TWENTY_M, FIVE_M}
  ELSE IF minute >= 40 /\ minute < 45 THEN {TWENTY_M}
  ELSE IF minute >= 45 /\ minute < 50 THEN {QUARTER_M}
  ELSE IF minute >= 50 /\ minute < 55 THEN {TEN_M}
  ELSE IF minute >= 55 THEN {FIVE_M}
  ELSE {}

\* slip: midnight is not mapped to twelve
To12Hour_NoMidnight(hour) == IF hour > 12 THEN hour - 12 ELSE hour

\* 24-hour to 12-hour conversion as the code does it (no modulo)
To12Hour(hour) ==
  LET h == IF hour > 12 THEN hour - 12 ELSE hour
  IN  IF h = 0 THEN 12 ELSE h

\* slip: the "to" branch lights the word of the hour itself
updateLocalWordRegister_SameHourTo(hour, minute) ==
  LET h == To12Hour(hour)
      hourPart ==
        IF minute < 35
          THEN (IF minute >= 5 THEN {PAST} ELSE {}) \cup PastHourWord(h)
          ELSE {TO} \cup PastHourWord(h)
  IN  disableAllWords \cup MinutePhrase(minute) \cup hourPart

updateLocalWordRegister(hour, minute) ==
  LET h == To12Hour(hour)
      hourPart ==
        IF minute < 35
          THEN (IF minute >= 5 THEN {PAST} ELSE {}) \cup PastHourWord(h)
          ELSE {TO} \cup ToHourWord(h)
  IN  disableAllWords \cup MinutePhrase(minute) \cup hourPart

(***************************************************************************)
(* The RTC chip (RTClib's RTC_DS3231).  It keeps the date and the time of  *)
(* day, counts on by itself and restarts its second when it is set.  While *)
(* it answers, every read returns a valid time: an hour register set out   *)
(* of range is held modulo 24.  The date is held as the date last set and  *)
(* the midnights passed since.                                             *)
(*                                                                         *)
(* The sketch calls rtc.begin(), rtc.lostPower(), rtc.now() and            *)
(* rtc.adjust() and looks at no status: while the chip does not answer, a  *)
(* write is lost, and a read hands back whatever the library decodes from  *)
(* an unanswered bus.                                                      *)
(***************************************************************************)
\* what a read may return while the chip does not answer: the bytes of an
\* unanswered bus (0xFF) decoded as BCD, or zeroes
UnansweredBus ==
  [date |-> [base |-> <<2165, 165, 165>>, plus |-> 0],
   hour |-> 165, minute |-> 165, second |-> 85, lostPower |-> TRUE]

ZeroedBus ==
  [date |-> [base |-> <<2000, 0, 0>>, plus |-> 0],
   hour |-> 0, minute |-> 0, second |-> 0, lostPower |-> FALSE]

FailedReads == {UnansweredBus, ZeroedBus}

RtcElapse(s, d) ==
  LET seconds == s.rtcSeconds + ((s.rtcMillis + d) \div MS_PER_SECOND)
  IN  [s EXCEPT
         !.rtcSeconds = seconds % SECONDS_PER_DAY,
         !.rtcMillis = (@ + d) % MS_PER_SECOND,
         !.rtcDate = [@ EXCEPT !.plus = @ + (seconds \div SECONDS_PER_DAY)]]

\* rtc.now()
RtcNow(s) ==
  IF s.rtcAvailable
    THEN [date |-> s.rtcDate,
          hour |-> s.rtcSeconds \div 3600,
          minute |-> (s.rtcSeconds \div 60) % 60,
          second |-> s.rtcSeconds % 60]
    ELSE [date |-> s.rtcFailedRead.date,
          hour |-> s.rtcFailedRead.hour,
          minute |-> s.rtcFailedRead.minute,
          second |-> s.rtcFailedRead.second]

\* rtc.lostPower()
RtcLostPower(s) ==
  IF s.rtcAvailable THEN s.rtcLostPower ELSE s.rtcFailedRead.lostPower

\* rtc.adjust(DateTime(date, hour, minute, second))
RtcAdjust(s, date, hour, minute, second) ==
  LET called ==
        [s EXCEPT
           !.trace = Append(@, "rtc.adjust"),
           !.lastWrite = [date |-> date, args |-> <<hour, minute, second>>,
                          canonical |-> <<s.currentHour, s.currentMinute,
                                          s.currentSecond>>]]
  IN  IF s.rtcAvailable
        THEN [called EXCEPT
                !.rtcSeconds =
                   ((hour % 24) * 3600 + minute * 60 + second) % SECONDS_PER_DAY,
                !.rtcMillis = 0,
                !.rtcLostPower = FALSE,
                !.rtcDate = date]
        ELSE called

(***************************************************************************)
(* Display                                                                 *)
(***************************************************************************)
updateDisplay(s, hour, minute) ==
  [s EXCEPT !.localWordRegister = updateLocalWordRegister(hour, minute)]

\* slip: the read replaces the hour and the minute, not the second
updateDisplayFromRTC_KeepsSecond(s) ==
  LET timeRTC == RtcNow(s)
      s1 == [s EXCEPT !.currentHour = timeRTC.hour,
                      !.currentMinute = timeRTC.minute,
                      !.trace = Append(@, "rtc.now(time)")]
  IN  updateDisplay(s1, s1.currentHour, s1.currentMinute)

\* slip: the read replaces the canonical time and does not render it
updateDisplayFromRTC_NoRender(s) ==
  LET timeRTC == RtcNow(s)
  IN  [s EXCEPT !.currentHour = timeRTC.hour,
                !.currentMinute = timeRTC.minute,
                !.currentSecond = timeRTC.second,
                !.trace = Append(@, "rtc.now(time)")]

updateDisplayFromRTC(s) ==
  LET timeRTC == RtcNow(s)
      s1 == [s EXCEPT !.currentHour = timeRTC.hour,
                      !.currentMinute = timeRTC.minute,
                      !.currentSecond = timeRTC.second,
                      !.trace = Append(@, "rtc.now(time)")]
  IN  updateDisplay(s1, s1.currentHour, s1.currentMinute)

(***************************************************************************)
(* Time adjustment                                                         *)
(***************************************************************************)
advanceHour(hour) == IF hour < 23 THEN hour + 1 ELSE 0

\* <<hour, minute>> after the minute button's advance
advanceMinute(hour, minute) ==
  IF minute < 59
    THEN <<hour, minute + 1>>
    ELSE <<(hour + 1) % Uint8Modulus, 0>>

\* slip: the debounce test accepts a level held for exactly the interval
Settled_AtLeast(timeNow, lastChange) ==
  MillisSub(timeNow, lastChange) >= BUTTON_DEBOUNCE_MS

\* the debounce test: the level has been constant for longer than the interval
Settled(timeNow, lastChange) ==
  MillisSub(timeNow, lastChange) > BUTTON_DEBOUNCE_MS

\* the hold-repeat timer: armed at an event, due when the counter reaches it
NextAdvanceTime(timeNow) == MillisAdd(timeNow, BUTTON_HOLD_ACTION_REPEAT_PERIOD)

\* slip: the repeat waits for the counter to pass the timer
RepeatDue_Strict(timeNow, nextAdvanceTime) == timeNow > nextAdvanceTime

RepeatDue(timeNow, nextAdvanceTime) == timeNow >= nextAdvanceTime

\* slip: the write deadline is armed with the repeat period
WriteDeadline_RepeatPeriod(timeNow) ==
  MillisAdd(timeNow, BUTTON_HOLD_ACTION_REPEAT_PERIOD)

\* the write deadline armed by an advance event
WriteDeadline(timeNow) == MillisAdd(timeNow, BUTTON_INACTION_RTC_UPDATE_DELAY)

\* lines 460-467: stamp a change of the sampled level, remember the level
Debounce(s, hourButtonValue, minuteButtonValue, timeNow) ==
  [s EXCEPT
     !.lastHourButtonChange =
        IF hourButtonValue # s.lastHourButtonValue THEN timeNow ELSE @,
     !.lastMinuteButtonChange =
        IF minuteButtonValue # s.lastMinuteButtonValue THEN timeNow ELSE @,
     !.lastHourButtonValue = hourButtonValue,
     !.lastMinuteButtonValue = minuteButtonValue]

\* slip: the first event of a press leaves the seconds as they were
HourButton_KeepsSecond(s, hourButtonValue, timeNow) ==
  IF Settled(timeNow, s.lastHourButtonChange)
    THEN IF hourButtonValue = LOW
      THEN IF s.hourButtonBeingHeld = FALSE
        THEN LET s1 == [s EXCEPT
                          !.currentHour = advanceHour(@),
                          !.timeLocallyUpdated = TRUE,
                          !.nextHourAdvanceTime = NextAdvanceTime(timeNow),
                          !.updateRTCTime = WriteDeadline(timeNow),
                          !.trace = Append(@, "advanceHour")]
                 s2 == updateDisplay(s1, s1.currentHour, s1.currentMinute)
             IN  [s2 EXCEPT !.hourButtonBeingHeld = TRUE]
        ELSE IF RepeatDue(timeNow, s.nextHourAdvanceTime)
          THEN LET s1 == [s EXCEPT
                            !.currentHour = advanceHour(@),
                            !.currentSecond = 0,
                            !.nextHourAdvanceTime = NextAdvanceTime(timeNow),
                            !.trace = Append(@, "advanceHour")]
                   s2 == updateDisplay(s1, s1.currentHour, s1.currentMinute)
               IN  [s2 EXCEPT !.updateRTCTime = WriteDeadline(timeNow)]
          ELSE s
      ELSE [s EXCEPT !.hourButtonBeingHeld = FALSE]
    ELSE s

\* lines 469-492
HourButton(s, hourButtonValue, timeNow) ==
  IF Settled(timeNow, s.lastHourButtonChange)
    THEN IF hourButtonValue = LOW
      THEN IF s.hourButtonBeingHeld = FALSE
        THEN LET s1 == [s EXCEPT
                          !.currentHour = advanceHour(@),
                          !.currentSecond = 0,
                          !.timeLocallyUpdated = TRUE,
                          !.nextHourAdvanceTime = NextAdvanceTime(timeNow),
                          !.updateRTCTime = WriteDeadline(timeNow),
                          !.trace = Append(@, "advanceHour")]
                 s2 == updateDisplay(s1, s1.currentHour, s1.currentMinute)
             IN  [s2 EXCEPT !.hourButtonBeingHeld = TRUE]
        ELSE IF RepeatDue(timeNow, s.nextHourAdvanceTime)
          THEN LET s1 == [s EXCEPT
                            !.currentHour = advanceHour(@),
                            !.currentSecond = 0,
                            !.nextHourAdvanceTime = NextAdvanceTime(timeNow),
                            !.trace = Append(@, "advanceHour")]
                   s2 == updateDisplay(s1, s1.currentHour, s1.currentMinute)
               IN  [s2 EXCEPT !.updateRTCTime = WriteDeadline(timeNow)]
          ELSE s
      ELSE [s EXCEPT !.hourButtonBeingHeld = FALSE]
    ELSE s

\* lines 494-517
MinuteButton(s, minuteButtonValue, timeNow) ==
  IF Settled(timeNow, s.lastMinuteButtonChange)
    THEN IF minuteButtonValue = LOW
      THEN IF s.minuteButtonBeingHeld = FALSE
        THEN LET hm == advanceMinute(s.currentHour, s.currentMinute)
                 s1 == [s EXCEPT
                          !.currentHour = hm[1],
                          !.currentMinute = hm[2],
                          !.currentSecond = 0,
                          !.timeLocallyUpdated = TRUE,
                          !.nextMinuteAdvanceTime = NextAdvanceTime(timeNow),
                          !.updateRTCTime = WriteDeadline(timeNow),
                          !.trace = Append(@, "advanceMinute")]
                 s2 == updateDisplay(s1, s1.currentHour, s1.currentMinute)
             IN  [s2 EXCEPT !.minuteButtonBeingHeld = TRUE]
        ELSE IF RepeatDue(timeNow, s.nextMinuteAdvanceTime)
          THEN LET hm == advanceMinute(s.currentHour, s.currentMinute)
                   s1 == [s EXCEPT
                            !.currentHour = hm[1],
                            !.currentMinute = hm[2],
                            !.currentSecond = 0,
                            !.nextMinuteAdvanceTime = NextAdvanceTime(timeNow),
                            !.updateRTCTime = WriteDeadline(timeNow),
                            !.trace = Append(@, "advanceMinute")]
               IN  updateDisplay(s1, s1.currentHour, s1.currentMinute)
          ELSE s
      ELSE [s EXCEPT !.minuteButtonBeingHeld = FALSE]
    ELSE s

\* slip: the write rule does not look at the held flags
WriteDue_IgnoresHeld(s, timeNow) ==
  /\ s.timeLocallyUpdated = TRUE
  /\ timeNow > s.updateRTCTime

\* slip: the write rule looks at the hour button's held flag only
WriteDue_OneButton(s, timeNow) ==
  /\ s.timeLocallyUpdated = TRUE
  /\ timeNow > s.updateRTCTime
  /\ s.hourButtonBeingHeld = FALSE

\* the guard of line 519
WriteDue(s, timeNow) ==
  /\ s.timeLocallyUpdated = TRUE
  /\ timeNow > s.updateRTCTime
  /\ s.hourButtonBeingHeld = FALSE
  /\ s.minuteButtonBeingHeld = FALSE

\* slip: the write hands the RTC's own hour back to it
WriteArgs_RtcHour(s) ==
  <<RtcNow(s).hour, s.currentMinute,
    BUTTON_INACTION_RTC_UPDATE_DELAY \div MS_PER_SECOND>>

\* the hour, minute and second handed to rtc.adjust on line 521
WriteArgs(s) ==
  <<s.currentHour, s.currentMinute,
    BUTTON_INACTION_RTC_UPDATE_DELAY \div MS_PER_SECOND>>

\* lines 519-524
WriteBack(s, timeNow) ==
  IF WriteDue(s, timeNow)
    THEN LET timeRTC == RtcNow(s)
             s1 == [s EXCEPT !.trace = Append(@, "rtc.now(date)")]
             a == WriteArgs(s1)
             s2 == RtcAdjust(s1, timeRTC.date, a[1], a[2], a[3])
         IN  [s2 EXCEPT !.timeLocallyUpdated = FALSE, !.updateRTCTime = 0]
    ELSE s

handleTimeAdjustButtons(s, hourButtonValue, minuteButtonValue, timeNow) ==
  LET s1 == Debounce(s, hourButtonValue, minuteButtonValue, timeNow)
      s2 == HourButton(s1, hourButtonValue, timeNow)
      s3 == MinuteButton(s2, minuteButtonValue, timeNow)
  IN  WriteBack(s3, timeNow)

\* slip: the read rule does not look at timeLocallyUpdated
PollDue_IgnoresPending(s, timeNow) ==
  MillisSub(timeNow, s.lastRTCQueryTime) > RTC_QUERY_PERIOD_MILLIS

\* the guard of lines 537-538
PollDue(s, timeNow) ==
  /\ MillisSub(timeNow, s.lastRTCQueryTime) > RTC_QUERY_PERIOD_MILLIS
  /\ s.timeLocallyUpdated = FALSE

\* slip: the read rule is skipped in a call that has written
PollRtc_Exclusive(s, timeNow) ==
  IF MillisSub(timeNow, s.lastRTCQueryTime) > RTC_QUERY_PERIOD_MILLIS
     /\ s.timeLocallyUpdated = FALSE
     /\ \A i \in DOMAIN s.trace : s.trace[i] # "rtc.adjust"
    THEN [updateDisplayFromRTC(s) EXCEPT !.lastRTCQueryTime = timeNow]
    ELSE s

\* slip: the read does not stamp lastRTCQueryTime
PollRtc_NoStamp(s, timeNow) ==
  IF PollDue(s, timeNow)
    THEN updateDisplayFromRTC(s)
    ELSE s

\* lines 536-542
PollRtc(s, timeNow) ==
  IF PollDue(s, timeNow)
    THEN [updateDisplayFromRTC(s) EXCEPT !.lastRTCQueryTime = timeNow]
    ELSE s

\* one call of loop(): the brightness control touches none of this state
loop(s, hourButtonValue, minuteButtonValue, timeNow) ==
  PollRtc(handleTimeAdjustButtons(s, hourButtonValue, minuteButtonValue, timeNow),
          timeNow)

\* slip: the display is rendered before the RTC is reset
setup_ReadsBeforeReset(s, timeNow) ==
  LET s1 == updateDisplayFromRTC(s)
      s2 == IF RtcLostPower(s1)
              THEN RtcAdjust(s1, [base |-> <<RTC_RESET_YEAR, RTC_RESET_MONTH,
                                            RTC_RESET_DAY>>, plus |-> 0],
                             RTC_RESET_HOUR, RTC_RESET_MINUTE, RTC_RESET_SECOND)
              ELSE s1
  IN  [s2 EXCEPT !.lastRTCQueryTime = timeNow]

\* setup(), lines 361-372; timeNow is what millis() returns on line 372
setup(s, timeNow) ==
  LET s1 == IF RtcLostPower(s)
              THEN RtcAdjust(s, [base |-> <<RTC_RESET_YEAR, RTC_RESET_MONTH,
                                           RTC_RESET_DAY>>, plus |-> 0],
                             RTC_RESET_HOUR, RTC_RESET_MINUTE, RTC_RESET_SECOND)
              ELSE s
  IN  [updateDisplayFromRTC(s1) EXCEPT !.lastRTCQueryTime = timeNow]


(***************************************************************************)
(* Environment: what the RTC holds at power-up, how long a pass takes      *)
(***************************************************************************)
\* times of day (in seconds) the RTC may hold at power-up: 23:59:30
RtcInit == {23 * 3600 + 59 * 60 + 30}

\* the date the RTC holds at power-up
RtcInitDate == [base |-> <<2016, 12, 31>>, plus |-> 0]

\* milliseconds between the millis() reads of two consecutive calls of loop()
TickDeltas ==
  {BUTTON_DEBOUNCE_MS + 1, BUTTON_HOLD_ACTION_REPEAT_PERIOD,
   BUTTON_INACTION_RTC_UPDATE_DELAY}

Levels == {LOW, HIGH}

Count(seq, x) == Cardinality({i \in DOMAIN seq : seq[i] = x})

(***************************************************************************)
(* Initial state: the static initialisers, before setup() runs             *)
(***************************************************************************)
Init ==
  /\ pc = "boot"
  /\ now = 0
  /\ currentHour = 0 /\ currentMinute = 0 /\ currentSecond = 0
  /\ lastRTCQueryTime = 0
  /\ timeLocallyUpdated = FALSE
  /\ localWordRegister = {}
  /\ lastHourButtonChange = 0 /\ lastMinuteButtonChange = 0
  /\ lastHourButtonValue = HIGH /\ lastMinuteButtonValue = HIGH
  /\ hourButtonBeingHeld = FALSE /\ minuteButtonBeingHeld = FALSE
  /\ nextHourAdvanceTime = 0 /\ nextMinuteAdvanceTime = 0
  /\ updateRTCTime = 0
  /\ rtcSeconds \in RtcInit
  /\ rtcMillis = 0
  /\ rtcLostPower \in BOOLEAN
  /\ rtcDate = RtcInitDate
  /\ rtcAvailable = TRUE
  /\ rtcFailedRead = UnansweredBus
  /\ trace = <<>>
  /\ lastWrite = [date |-> RtcInitDate, args |-> <<0, 0, 0>>,
                  canonical |-> <<0, 0, 0>>]
  /\ clock = 0
  /\ ticks = 0
  /\ hourLevel = HIGH /\ minuteLevel = HIGH
  /\ hourLevelSince = 0 /\ minuteLevelSince = 0
  /\ hourFast = TRUE /\ minuteFast = TRUE
  /\ hourEvents = 0 /\ minuteEvents = 0
  /\ lastHourEventAt = -1 /\ lastMinuteEventAt = -1
  /\ lastReadAt = -1 /\ prevReadAt = -1

\* the program's part of the next state is the record r
Becomes(r) ==
  /\ currentHour' = r.currentHour
  /\ currentMinute' = r.currentMinute
  /\ currentSecond' = r.currentSecond
  /\ lastRTCQueryTime' = r.lastRTCQueryTime
  /\ timeLocallyUpdated' = r.timeLocallyUpdated
  /\ localWordRegister' = r.localWordRegister
  /\ lastHourButtonChange' = r.lastHourButtonChange
  /\ lastMinuteButtonChange' = r.lastMinuteButtonChange
  /\ lastHourButtonValue' = r.lastHourButtonValue
  /\ lastMinuteButtonValue' = r.lastMinuteButtonValue
  /\ hourButtonBeingHeld' = r.hourButtonBeingHeld
  /\ minuteButtonBeingHeld' = r.minuteButtonBeingHeld
  /\ nextHourAdvanceTime' = r.nextHourAdvanceTime
  /\ nextMinuteAdvanceTime' = r.nextMinuteAdvanceTime
  /\ updateRTCTime' = r.updateRTCTime
  /\ rtcSeconds' = r.rtcSeconds
  /\ rtcMillis' = r.rtcMillis
  /\ rtcLostPower' = r.rtcLostPower
  /\ rtcDate' = r.rtcDate
  /\ rtcAvailable' = r.rtcAvailable
  /\ rtcFailedRead' = r.rtcFailedRead
  /\ trace' = r.trace
  /\ lastWrite' = r.lastWrite

\* setup() runs once; it takes at least the strobe delay of its first render
Setup ==
  /\ pc = "boot"
  /\ pc' = "run"
  /\ now' = MillisAdd(now, REGISTER_STROBE_DURATION_MS)
  /\ clock' = clock + REGISTER_STROBE_DURATION_MS
  /\ Becomes(setup(State, now'))
  /\ lastReadAt' = clock'
  /\ prevReadAt' = lastReadAt
  /\ UNCHANGED <<ticks, hourLevel, minuteLevel, hourLevelSince,
                 minuteLevelSince, hourFast, minuteFast, hourEvents,
                 minuteEvents, lastHourEventAt, lastMinuteEventAt>>

\* one call of loop(), d milliseconds after the previous one, sampling the
\* hour button at level hv and the minute button at level mv
Pass(hv, mv, d) ==
  LET timeNow == MillisAdd(now, d)
      r == loop(RtcElapse(State, d), hv, mv, timeNow)
      hourFired == Count(r.trace, "advanceHour")
      minuteFired == Count(r.trace, "advanceMinute")
  IN  /\ pc = "run"
      /\ pc' = pc
      /\ now' = timeNow
      /\ Becomes(r)
      /\ clock' = clock + d
      /\ ticks' = ticks + 1
      /\ hourLevel' = hv
      /\ minuteLevel' = mv
      /\ hourLevelSince' = IF hv # hourLevel THEN clock' ELSE hourLevelSince
      /\ minuteLevelSince' = IF mv # minuteLevel THEN clock' ELSE minuteLevelSince
      /\ hourFast' = (hourFast /\ clock' - hourLevelSince' <= BUTTON_DEBOUNCE_MS)
      /\ minuteFast' =
           (minuteFast /\ clock' - minuteLevelSince' <= BUTTON_DEBOUNCE_MS)
      /\ hourEvents' = hourEvents + hourFired
      /\ minuteEvents' = minuteEvents + minuteFired
      /\ lastHourEventAt' = IF hourFired > 0 THEN clock' ELSE lastHourEventAt
      /\ lastMinuteEventAt' = IF minuteFired > 0 THEN clock' ELSE lastMinuteEventAt
      /\ lastReadAt' =
           IF Count(r.trace, "rtc.now(time)") > 0 THEN clock' ELSE lastReadAt
      /\ prevReadAt' =
           IF Count(r.trace, "rtc.now(time)") > 0 THEN lastReadAt ELSE prevReadAt

Tick ==
  /\ ticks < MaxTicks
  /\ \E hv \in Levels, mv \in Levels, d \in TickDeltas : Pass(hv, mv, d)

\* the clock is left alone until shortly before the millisecond counter
\* wraps: one pass with both buttons released stands for the idle passes of
\* that stretch.  A press sampled in the next pass fires its advance event
\* BUTTON_INACTION_RTC_UPDATE_DELAY + 1 before the wrap.
NearWrapIdle ==
  MillisModulus - (BUTTON_INACTION_RTC_UPDATE_DELAY + 1)
    - 2 * (BUTTON_DEBOUNCE_MS + 1) - REGISTER_STROBE_DURATION_MS

IdleUntilNearWrap ==
  /\ ticks = 0
  /\ Pass(HIGH, HIGH, NearWrapIdle)

Next == Setup \/ Tick \/ IdleUntilNearWrap

Spec == Init /\ [][Next]_vars

(***************************************************************************)
(* The minute button kept pressed, one pass every repeat period            *)
(***************************************************************************)
HoldTick ==
  /\ ticks < MaxHoldTicks
  /\ Pass(HIGH, LOW, BUTTON_HOLD_ACTION_REPEAT_PERIOD)

HoldNext == Setup \/ HoldTick

HoldSpec == Init /\ [][HoldNext]_vars

(***************************************************************************)
(* Bouncing contacts: passes at most one debounce interval apart           *)
(***************************************************************************)
BounceDeltas == {1, BUTTON_DEBOUNCE_MS - 1, BUTTON_DEBOUNCE_MS}

BounceTick ==
  /\ ticks < MaxBounceTicks
  /\ \E hv \in Levels, mv \in Levels, d \in BounceDeltas : Pass(hv, mv, d)

BounceNext == Setup \/ BounceTick

BounceSpec == Init /\ [][BounceNext]_vars

(***************************************************************************)
(* An RTC that stops answering (chip missing, bus failure) and may answer  *)
(* again; the sketch is not told                                           *)
(***************************************************************************)
RtcFault ==
  /\ rtcAvailable
  /\ rtcAvailable' = FALSE
  /\ rtcFailedRead' \in FailedReads
  /\ UNCHANGED <<pc, now, progVars, rtcSeconds, rtcMillis, rtcLostPower,
                 rtcDate, obsVars>>

RtcRecover ==
  /\ ~rtcAvailable
  /\ rtcAvailable' = TRUE
  /\ UNCHANGED <<pc, now, progVars, rtcSeconds, rtcMillis, rtcLostPower,
                 rtcDate, rtcFailedRead, obsVars>>

FailTick ==
  /\ ticks < MaxFailTicks
  /\ \E hv \in Levels, mv \in Levels, d \in TickDeltas : Pass(hv, mv, d)

FailNext == Setup \/ FailTick \/ RtcFault \/ RtcRecover

FailSpec == Init /\ [][FailNext]_vars

(***************************************************************************)
(* The encoder by itself: updateDisplay() called once with each time of    *)
(* day                                                                     *)
(***************************************************************************)
Hours == 0..23
Minutes == 0..59

EncodeInit ==
  /\ pc = "encode"
  /\ now = 0
  /\ currentHour \in Hours /\ currentMinute \in Minutes /\ currentSecond = 0
  /\ lastRTCQueryTime = 0
  /\ timeLocallyUpdated = FALSE
  /\ localWordRegister = {}
  /\ lastHourButtonChange = 0 /\ lastMinuteButtonChange = 0
  /\ lastHourButtonValue = HIGH /\ lastMinuteButtonValue = HIGH
  /\ hourButtonBeingHeld = FALSE /\ minuteButtonBeingHeld = FALSE
  /\ nextHourAdvanceTime = 0 /\ nextMinuteAdvanceTime = 0
  /\ updateRTCTime = 0
  /\ rtcSeconds \in RtcInit
  /\ rtcMillis = 0
  /\ rtcLostPower = FALSE
  /\ rtcDate = RtcInitDate
  /\ rtcAvailable = TRUE
  /\ rtcFailedRead = UnansweredBus
  /\ trace = <<>>
  /\ lastWrite = [date |-> RtcInitDate, args |-> <<0, 0, 0>>,
                  canonical |-> <<0, 0, 0>>]
  /\ clock = 0
  /\ ticks = 0
  /\ hourLevel = HIGH /\ minuteLevel = HIGH
  /\ hourLevelSince = 0 /\ minuteLevelSince = 0
  /\ hourFast = TRUE /\ minuteFast = TRUE
  /\ hourEvents = 0 /\ minuteEvents = 0
  /\ lastHourEventAt = -1 /\ lastMinuteEventAt = -1
  /\ lastReadAt = -1 /\ prevReadAt = -1

Render ==
  /\ pc = "encode"
  /\ pc' = "rendered"
  /\ Becomes(updateDisplay(State, currentHour, currentMinute))
  /\ UNCHANGED <<now, clock, ticks, hourLevel, minuteLevel, hourLevelSince,
                 minuteLevelSince, hourFast, minuteFast, hourEvents,
                 minuteEvents, lastHourEventAt, lastMinuteEventAt,
                 lastReadAt, prevReadAt>>

EncodeNext == Render

EncodeSpec == EncodeInit /\ [][EncodeNext]_vars

\* updateDisplay() called a second time, with any time of day, on the
\* register the first call left
RenderAgain ==
  /\ pc = "rendered"
  /\ pc' = "rerendered"
  /\ \E hour \in Hours, minute \in Minutes :
       Becomes(updateDisplay([State EXCEPT !.currentHour = hour,
                                           !.currentMinute = minute],
                             hour, minute))
  /\ UNCHANGED <<now, clock, ticks, hourLevel, minuteLevel, hourLevelSince,
                 minuteLevelSince, hourFast, minuteFast, hourEvents,
                 minuteEvents, lastHourEventAt, lastMinuteEventAt,
                 lastReadAt, prevReadAt>>

RerenderNext == Render \/ RenderAgain

RerenderSpec == EncodeInit /\ [][RerenderNext]_vars

(***************************************************************************)
(* The earlier version of the sketch, WordClock.ino.  Its state has the    *)
(* same names; its definitions carry the prefix Ino_.  It is built for the *)
(* ATmega328P, where int is 16 bits wide.                                  *)
(***************************************************************************)
BUTTON_DEBOUNCE_MILLIS == 100
Ino_REPEAT_PERIOD == 2000
Ino_INACTION_DELAY == 5000
Ino_IntBits == 16
Ino_RTC_RESET_YEAR == 2016
Ino_IntModulus == 2 ^ Ino_IntBits

\* the value of (1 << theWord), an int, as the set of bits it raises in the
\* 32-bit register.  Below bit 15 the shift is exact.  From bit 15 on it
\* overflows the 16-bit int, which is undefined: the build either keeps the
\* bit (wide) or loses it.
Ino_Mask(theWord, wide) ==
  IF theWord < Ino_IntBits - 1 \/ wide THEN {theWord} ELSE {}

Ino_enableWord(register, theWord, wide) == register \cup Ino_Mask(theWord, wide)

\* the words of the minute part; nothing is enabled below minute 5
Ino_MinuteWords(minute) ==
  IF minute < 5 THEN {}
  ELSE IF minute >= 5 /\ minute < 10 THEN {FIVE_M}
  ELSE IF minute >= 10 /\ minute < 15 THEN {TEN_M}
  ELSE IF minute >= 15 /\ minute < 20 THEN {QUARTER_M}
  ELSE IF minute >= 20 /\ minute < 25 THEN {TWENTY_M}
  ELSE IF minute >= 25 /\ minute < 30 THEN {TWENTY_M, FIVE_M}
  ELSE IF minute >= 30 /\ minute < 35 THEN {HALF_M}
  ELSE IF minute >= 35 /\ minute < 40 THEN {TWENTY_M, FIVE_M}
  ELSE IF minute >= 40 /\ minute < 45 THEN {TWENTY_M}
  ELSE IF minute >= 45 /\ minute < 50 THEN {QUARTER_M}
  ELSE IF minute >= 50 /\ minute < 55 THEN {TEN_M}
  ELSE IF minute >= 55 THEN {FIVE_M}
  ELSE {}

\* the words of the hour part: the two switches are those of the later
\* version, applied to the hour as it is passed in (no 12-hour conversion)
Ino_HourWords(hour, minute) ==
  IF minute < 35
    THEN (IF minute >= 5 THEN {PAST} ELSE {}) \cup PastHourWord(hour)
    ELSE {TO} \cup ToHourWord(hour)

Ino_updateLocalWordRegister(hour, minute, wide) ==
  UNION {Ino_enableWord({}, theWord, wide) :
           theWord \in Ino_MinuteWords(minute) \cup Ino_HourWords(hour, minute)}

Ino_updateDisplay(s, hour, minute, wide) ==
  [s EXCEPT !.localWordRegister = Ino_updateLocalWordRegister(hour, minute, wide)]

\* the earlier encoder by itself, called once with each time of day
Ino_Render ==
  /\ pc = "encode"
  /\ pc' = "rendered"
  /\ \E wide \in BOOLEAN :
       Becomes(Ino_updateDisplay(State, currentHour, currentMinute, wide))
  /\ UNCHANGED <<now, clock, ticks, hourLevel, minuteLevel, hourLevelSince,
                 minuteLevelSince, hourFast, minuteFast, hourEvents,
                 minuteEvents, lastHourEventAt, lastMinuteEventAt,
                 lastReadAt, prevReadAt>>

Ino_EncodeNext == Ino_Render

Ino_EncodeSpec == EncodeInit /\ [][Ino_EncodeNext]_vars

\* int timeNow = millis(): the counter cut to a 16-bit int
Ino_ToInt(millisNow) ==
  ((millisNow + Ino_IntModulus \div 2) % Ino_IntModulus) - Ino_IntModulus \div 2

\* timeNow + period in int arithmetic.  (The sum can overflow the int, which
\* is undefined; it is taken to wrap.)
Ino_IntAdd(timeNow, period) == Ino_ToInt(timeNow + period)

\* The statics of the handler are unsigned long and are only ever assigned 0
\* or an int, which is converted by sign extension; they are held here as
\* that int, a negative one standing for a value just below 2^32.
\* a < b, both taken as unsigned long
Ino_UnsignedLess(a, b) == IF (a < 0) = (b < 0) THEN a < b ELSE b < 0

\* (timeNow - lastChange) > BUTTON_DEBOUNCE_MILLIS in unsigned long: a
\* negative difference wraps to a value just below 2^32
Ino_Settled(timeNow, lastChange) ==
  \/ timeNow - lastChange < 0
  \/ timeNow - lastChange > BUTTON_DEBOUNCE_MILLIS

\* lines 394-399: a level different from lastHourButtonValue stamps the change;
\* lastHourButtonValue and lastMinuteButtonValue are never assigned
Ino_Debounce(s, hourButtonValue, minuteButtonValue, timeNow) ==
  [s EXCEPT
     !.lastHourButtonChange =
        IF hourButtonValue # s.lastHourButtonValue THEN timeNow ELSE @,
     !.lastMinuteButtonChange =
        IF minuteButtonValue # s.lastMinuteButtonValue THEN timeNow ELSE @]

Ino_hourAfter(hour) == IF hour < 23 THEN hour + 1 ELSE 0

Ino_minuteAfter(minute) == IF minute < 59 THEN minute + 1 ELSE 0

\* lines 401-424
Ino_HourButton(s, hourButtonValue, timeNow, wide) ==
  IF Ino_Settled(timeNow, s.lastHourButtonChange)
    THEN IF hourButtonValue = LOW
      THEN IF s.hourButtonBeingHeld = FALSE
        THEN LET s1 == [s EXCEPT
                          !.currentHour = Ino_hourAfter(@),
                          !.currentSecond = 0,
                          !.timeLocallyUpdated = TRUE,
                          !.nextHourAdvanceTime =
                             Ino_IntAdd(timeNow, Ino_REPEAT_PERIOD),
                          !.updateRTCTime =
                             Ino_IntAdd(timeNow, Ino_INACTION_DELAY),
                          !.trace = Append(@, "advanceHour")]
                 s2 == Ino_updateDisplay(s1, s1.currentHour, s1.currentMinute,
                                         wide)
             IN  [s2 EXCEPT !.hourButtonBeingHeld = TRUE]
        ELSE IF ~Ino_UnsignedLess(timeNow, s.nextHourAdvanceTime)
          THEN LET s1 == [s EXCEPT
                            !.currentHour = Ino_hourAfter(@),
                            !.currentSecond = 0,
                            !.nextHourAdvanceTime =
                               Ino_IntAdd(timeNow, Ino_REPEAT_PERIOD),
                            !.trace = Append(@, "advanceHour")]
                   s2 == Ino_updateDisplay(s1, s1.currentHour,
                                           s1.currentMinute, wide)
               IN  [s2 EXCEPT !.updateRTCTime =
                                 Ino_IntAdd(timeNow, Ino_INACTION_DELAY)]
          ELSE s
      ELSE [s EXCEPT !.hourButtonBeingHeld = FALSE]
    ELSE s

\* lines 426-449
Ino_MinuteButton(s, minuteButtonValue, timeNow, wide) ==
  IF Ino_Settled(timeNow, s.lastMinuteButtonChange)
    THEN IF minuteButtonValue = LOW
      THEN IF s.minuteButtonBeingHeld = FALSE
        THEN LET s1 == [s EXCEPT
                          !.currentMinute = Ino_minuteAfter(@),
                          !.currentSecond = 0,
                          !.timeLocallyUpdated = TRUE,
                          !.nextMinuteAdvanceTime =
                             Ino_IntAdd(timeNow, Ino_REPEAT_PERIOD),
                          !.updateRTCTime =
                             Ino_IntAdd(timeNow, Ino_INACTION_DELAY),
                          !.trace = Append(@, "advanceMinute")]
                 s2 == Ino_updateDisplay(s1, s1.currentHour, s1.currentMinute,
                                         wide)
             IN  [s2 EXCEPT !.minuteButtonBeingHeld = TRUE]
        ELSE IF ~Ino_UnsignedLess(timeNow, s.nextMinuteAdvanceTime)
          THEN LET s1 == [s EXCEPT
                            !.currentMinute = Ino_minuteAfter(@),
                            !.currentSecond = 0,
                            !.nextMinuteAdvanceTime =
                               Ino_IntAdd(timeNow, Ino_REPEAT_PERIOD),
                            !.updateRTCTime =
                               Ino_IntAdd(timeNow, Ino_INACTION_DELAY),
                            !.trace = Append(@, "advanceMinute")]
               IN  Ino_updateDisplay(s1, s1.currentHour, s1.currentMinute, wide)
          ELSE s
      ELSE [s EXCEPT !.minuteButtonBeingHeld = FALSE]
    ELSE s

\* lines 451-456: the write hands over currentSecond
Ino_WriteBack(s, timeNow) ==
  IF /\ s.timeLocallyUpdated = TRUE
     /\ Ino_UnsignedLess(s.updateRTCTime, timeNow)
     /\ s.hourButtonBeingHeld = FALSE
     /\ s.minuteButtonBeingHeld = FALSE
    THEN LET timeRTC == RtcNow(s)
             s1 == [s EXCEPT !.trace = Append(@, "rtc.now(date)")]
             s2 == RtcAdjust(s1, timeRTC.date, s1.currentHour,
                             s1.currentMinute, s1.currentSecond)
         IN  [s2 EXCEPT !.timeLocallyUpdated = FALSE, !.updateRTCTime = 0]
    ELSE s

Ino_handleTimeAdjustButtons(s, hourButtonValue, minuteButtonValue, millisNow, wide) ==
  LET timeNow == Ino_ToInt(millisNow)
      s1 == Ino_Debounce(s, hourButtonValue, minuteButtonValue, timeNow)
      s2 == Ino_HourButton(s1, hourButtonValue, timeNow, wide)
      s3 == Ino_MinuteButton(s2, minuteButtonValue, timeNow, wide)
  IN  Ino_WriteBack(s3, timeNow)

\* loop(), lines 464-483: its own timeNow is the full unsigned long
Ino_loop(s, hourButtonValue, minuteButtonValue, millisNow, wide) ==
  LET s1 == Ino_handleTimeAdjustButtons(s, hourButtonValue, minuteButtonValue,
                                        millisNow, wide)
  IN  IF /\ MillisSub(millisNow, s1.lastRTCQueryTime) > RTC_QUERY_PERIOD_MILLIS
         /\ s1.timeLocallyUpdated = FALSE
        THEN LET timeRTC == RtcNow(s1)
                 s2 == [s1 EXCEPT !.currentHour = timeRTC.hour,
                                  !.currentMinute = timeRTC.minute,
                                  !.currentSecond = timeRTC.second,
                                  !.trace = Append(@, "rtc.now(time)")]
                 s3 == Ino_updateDisplay(s2, s2.currentHour, s2.currentMinute,
                                         wide)
             IN  [s3 EXCEPT !.lastRTCQueryTime = millisNow]
        ELSE s1

\* testDisplay1() and testDisplay2(): one render and delay per word, then
\* one per five minutes of the day
WORD_BIT_MAX == 20

Ino_TestDuration ==
  (WORD_BIT_MAX + 1) * (REGISTER_STROBE_DURATION_MS + 500)
    + (24 * 12) * (REGISTER_STROBE_DURATION_MS + 1000)

\* setup(), lines 295-318: the display tests leave the rendering of 23:55;
\* the RTC is reset if it lost power; the time read last is not used
Ino_setup(s, wide) ==
  LET s1 == Ino_updateDisplay(s, 23, 55, wide)
      s2 == IF RtcLostPower(s1)
              THEN RtcAdjust(s1, [base |-> <<Ino_RTC_RESET_YEAR, RTC_RESET_MONTH,
                                            RTC_RESET_DAY>>, plus |-> 0],
                             RTC_RESET_HOUR, RTC_RESET_MINUTE, RTC_RESET_SECOND)
              ELSE s1
  IN  [s2 EXCEPT !.trace = Append(@, "rtc.now(unused)")]

Ino_Setup ==
  /\ pc = "boot"
  /\ pc' = "run"
  /\ now' = MillisAdd(now, Ino_TestDuration)
  /\ clock' = clock + Ino_TestDuration
  /\ \E wide \in BOOLEAN :
       Becomes(Ino_setup(RtcElapse(State, Ino_TestDuration), wide))
  /\ lastReadAt' = lastReadAt
  /\ prevReadAt' = prevReadAt
  /\ UNCHANGED <<ticks, hourLevel, minuteLevel, hourLevelSince,
                 minuteLevelSince, hourFast, minuteFast, hourEvents,
                 minuteEvents, lastHourEventAt, lastMinuteEventAt>>

\* one call of the earlier loop(), d milliseconds after the previous one
Ino_Pass(hv, mv, d, wide) ==
  LET timeNow == MillisAdd(now, d)
      r == Ino_loop(RtcElapse(State, d), hv, mv, timeNow, wide)
      hourFired == Count(r.trace, "advanceHour")
      minuteFired == Count(r.trace, "advanceMinute")
  IN  /\ pc = "run"
      /\ pc' = pc
      /\ now' = timeNow
      /\ Becomes(r)
      /\ clock' = clock + d
      /\ ticks' = ticks + 1
      /\ hourLevel' = hv
      /\ minuteLevel' = mv
      /\ hourLevelSince' = IF hv # hourLevel THEN clock' ELSE hourLevelSince
      /\ minuteLevelSince' = IF mv # minuteLevel THEN clock' ELSE minuteLevelSince
      /\ hourFast' =
           (hourFast /\ clock' - hourLevelSince' <= BUTTON_DEBOUNCE_MILLIS)
      /\ minuteFast' =
           (minuteFast /\ clock' - minuteLevelSince' <= BUTTON_DEBOUNCE_MILLIS)
      /\ hourEvents' = hourEvents + hourFired
      /\ minuteEvents' = minuteEvents + minuteFired
      /\ lastHourEventAt' = IF hourFired > 0 THEN clock' ELSE lastHourEventAt
      /\ lastMinuteEventAt' = IF minuteFired > 0 THEN clock' ELSE lastMinuteEventAt
      /\ lastReadAt' =
           IF Count(r.trace, "rtc.now(time)") > 0 THEN clock' ELSE lastReadAt
      /\ prevReadAt' =
           IF Count(r.trace, "rtc.now(time)") > 0 THEN lastReadAt ELSE prevReadAt

Ino_TickDeltas ==
  {BUTTON_DEBOUNCE_MILLIS + 1, Ino_REPEAT_PERIOD, Ino_INACTION_DELAY}

Ino_Tick ==
  /\ ticks < MaxInoTicks
  /\ \E hv \in Levels, mv \in Levels, d \in Ino_TickDeltas, wide \in BOOLEAN :
       Ino_Pass(hv, mv, d, wide)

Ino_Next == Ino_Setup \/ Ino_Tick

Ino_Spec == Init /\ [][Ino_Next]_vars

(***************************************************************************)
(* Observations shared by the properties                                   *)
(***************************************************************************)
Did(tr, what) == \E i \in DOMAIN tr : tr[i] = what

\* the last step was a call of loop() that wrote to / read from the RTC
Wrote == ticks > 0 /\ Did(trace, "rtc.adjust")
ReadTime == ticks > 0 /\ Did(trace, "rtc.now(time)")
Advanced == ticks > 0 /\ (Did(trace, "advanceHour") \/ Did(trace, "advanceMinute"))

LastAdvanceAt ==
  IF lastHourEventAt > lastMinuteEventAt THEN lastHourEventAt
  ELSE lastMinuteEventAt

canonical == <<currentHour, currentMinute, currentSecond>>

\* the time of day the RTC holds
RtcTime == <<rtcSeconds \div 3600, (rtcSeconds \div 60) % 60, rtcSeconds % 60>>

\* the millisecond counter has not wrapped, and a timer armed now expires
\* before it does
CounterDoesNotWrap ==
  clock + BUTTON_INACTION_RTC_UPDATE_DELAY < MillisModulus


(***************************************************************************)
(* C1: while a local edit is pending, the canonical time is never replaced *)
(* by a ClockSource read.  A call of loop() that ends with the edit still  *)
(* pending has read nothing into the canonical time, and has left the      *)
(* canonical time untouched unless a button fired an advance event in it.  *)
(***************************************************************************)
C1_NoReadWhilePending ==
  [][(pc = "run" /\ timeLocallyUpdated') =>
       /\ ~Did(trace', "rtc.now(time)")
       /\ (~Did(trace', "advanceHour") /\ ~Did(trace', "advanceMinute"))
            => canonical' = canonical]_vars

\* an edit is pending while the poll interval has run out, and nothing was read
C1_Witness ==
  /\ ticks > 0
  /\ timeLocallyUpdated
  /\ MillisSub(now, lastRTCQueryTime) > RTC_QUERY_PERIOD_MILLIS
  /\ ~Did(trace, "rtc.now(time)")

(***************************************************************************)
(* C2: as long as the counter does not wrap, a ClockSource write comes no  *)
(* sooner than the inaction delay after the most recent advance event of   *)
(* either button, and every advance event re-arms the write deadline to    *)
(* now + BUTTON_INACTION_RTC_UPDATE_DELAY.                                 *)
(***************************************************************************)
C2_WriteNotBeforeInactionDelay ==
  CounterDoesNotWrap =>
    /\ Wrote => /\ LastAdvanceAt >= 0
                /\ clock - LastAdvanceAt >= BUTTON_INACTION_RTC_UPDATE_DELAY
    /\ Advanced => updateRTCTime = now + BUTTON_INACTION_RTC_UPDATE_DELAY

\* a write has happened without any wrap of the counter
C2_Witness == Wrote /\ CounterDoesNotWrap /\ LastAdvanceAt >= 0

(***************************************************************************)
(* C4: after startup a ClockSource write happens only in a call of loop()  *)
(* that found timeLocallyUpdated true, in which the counter is past the    *)
(* write deadline and neither button is in the held state; it is the one   *)
(* write of that call.                                                     *)
(***************************************************************************)
C4_WriteOnlyWhenDue ==
  [][(pc = "run" /\ Did(trace', "rtc.adjust")) =>
       /\ timeLocallyUpdated
       /\ now' > updateRTCTime
       /\ ~hourButtonBeingHeld' /\ ~minuteButtonBeingHeld'
       /\ Count(trace', "rtc.adjust") = 1]_vars

\* a write happened after both buttons had taken part in the edit
C4_Witness == Wrote /\ hourEvents > 0 /\ minuteEvents > 0


(***************************************************************************)
(* C3: after exactly one advance event and no further button input the     *)
(* edited time is eventually written.  The write rule fires only in a call *)
(* of loop() whose counter value is greater than updateRTCTime, and without*)
(* further input updateRTCTime stays as the event armed it; so the claim   *)
(* requires that, while the one edit is pending, some value of the counter *)
(* is greater than updateRTCTime.                                          *)
(***************************************************************************)
C3_PendingWriteCanFire ==
  (hourEvents + minuteEvents = 1 /\ timeLocallyUpdated) =>
    updateRTCTime < MillisModulus - 1

(***************************************************************************)
(* C5 as claimed: the hour, minute and second handed to the write are the  *)
(* canonical currentHour, currentMinute and currentSecond of that moment.  *)
(***************************************************************************)
C5_WritesCanonicalTime ==
  Wrote => lastWrite.args = lastWrite.canonical

(***************************************************************************)
(* C5 as amended: the hour and minute handed to the write are currentHour  *)
(* and currentMinute; the second handed to it is the inaction delay in     *)
(* seconds (5), while currentSecond is 0 at that moment.                   *)
(***************************************************************************)
C5_WritesHourMinuteAndDelaySecond ==
  Wrote =>
    /\ lastWrite.args[1] = lastWrite.canonical[1]
    /\ lastWrite.args[2] = lastWrite.canonical[2]
    /\ lastWrite.args[3] = BUTTON_INACTION_RTC_UPDATE_DELAY \div MS_PER_SECOND
    /\ lastWrite.canonical[3] = 0

\* an edit made with the hour button has been written
C5_Witness == Wrote /\ hourEvents > 0 /\ lastWrite.args[1] # 23

(***************************************************************************)
(* C6 as claimed: in a call of loop() in which the pending edit is written *)
(* to ClockSource, no ClockSource read into the canonical time happens.    *)
(***************************************************************************)
C6_WriteExcludesRead == ~(Wrote /\ ReadTime)

(***************************************************************************)
(* C6 as amended: the two rules are ordered, not exclusive.  In a call of  *)
(* loop() in which the pending edit is written, the read rule is evaluated *)
(* after the write has cleared timeLocallyUpdated: the call reads          *)
(* ClockSource into the canonical time, after the write, exactly when more *)
(* than the poll interval has elapsed since the last read.                 *)
(***************************************************************************)
C6_ReadFollowsWriteWhenPollDue ==
  [][(pc = "run" /\ Did(trace', "rtc.adjust")) =>
       trace' =
         IF MillisSub(now', lastRTCQueryTime) > RTC_QUERY_PERIOD_MILLIS
           THEN <<"rtc.now(date)", "rtc.adjust", "rtc.now(time)">>
           ELSE <<"rtc.now(date)", "rtc.adjust">>]_vars

\* a call of loop() wrote the edit and then read the RTC
C6_Witness == Wrote /\ ReadTime

(***************************************************************************)
(* C7: the canonical time stays in range: currentHour in 0..23,            *)
(* currentMinute in 0..59, currentSecond in 0..59.                         *)
(***************************************************************************)
C7_TimeInRange ==
  /\ currentHour \in 0..23
  /\ currentMinute \in 0..59
  /\ currentSecond \in 0..59

(***************************************************************************)
(* C8: the rendered word register holds exactly one of the twelve hour     *)
(* words in every state of the running clock.                              *)
(***************************************************************************)
C8_ExactlyOneHourWord ==
  pc = "run" => Cardinality(localWordRegister \cap HourWords) = 1

(***************************************************************************)
(* C9: a button whose sampled level never stays the same for longer than   *)
(* the debounce interval produces no advance event and never enters the    *)
(* held state.                                                             *)
(***************************************************************************)
C9_BouncingNeverFires ==
  /\ hourFast => (hourEvents = 0 /\ ~hourButtonBeingHeld)
  /\ minuteFast => (minuteEvents = 0 /\ ~minuteButtonBeingHeld)

\* the hour button was sampled LOW in two consecutive calls a full debounce
\* interval apart and has bounced through every call so far
C9_Witness ==
  /\ ticks >= 4
  /\ hourFast
  /\ hourLevel = LOW
  /\ clock - hourLevelSince = BUTTON_DEBOUNCE_MS

(***************************************************************************)
(* C10: as long as the counter does not wrap, a button sampled LOW fires   *)
(* exactly one advance event in the first call of loop() that finds the    *)
(* level stable for longer than the debounce interval, and while it stays  *)
(* LOW one further event in each call that finds the repeat period elapsed *)
(* since that button's previous event; events of one hold are at least one *)
(* repeat period apart, and a button that is not sampled LOW and stable    *)
(* fires nothing.                                                          *)
(***************************************************************************)
ButtonFiresAsClaimed(level, stable, wasHeld, sinceEvent, fired) ==
  IF level = LOW /\ stable > BUTTON_DEBOUNCE_MS
    THEN IF ~wasHeld \/ sinceEvent >= BUTTON_HOLD_ACTION_REPEAT_PERIOD
           THEN fired = 1
           ELSE fired = 0
    ELSE fired = 0

C10_OneEventThenRepeats ==
  [][(pc = "run" /\ clock' + BUTTON_INACTION_RTC_UPDATE_DELAY < MillisModulus) =>
       /\ ButtonFiresAsClaimed(hourLevel', clock' - hourLevelSince',
                               hourButtonBeingHeld, clock' - lastHourEventAt,
                               hourEvents' - hourEvents)
       /\ ButtonFiresAsClaimed(minuteLevel', clock' - minuteLevelSince',
                               minuteButtonBeingHeld, clock' - lastMinuteEventAt,
                               minuteEvents' - minuteEvents)]_vars

\* the hour button fired, then fired again exactly one repeat period later
C10_Witness ==
  /\ CounterDoesNotWrap
  /\ hourEvents = 2
  /\ Did(trace, "advanceHour")
  /\ hourButtonBeingHeld

(***************************************************************************)
(* C11: immediately after every advance event, of the first press or of a  *)
(* hold repeat and of either button, currentSecond is 0 and                *)
(* timeLocallyUpdated is true: in the state the button's branch leaves     *)
(* behind inside handleTimeAdjustButtons, and still when the call of       *)
(* loop() returns.                                                         *)
(***************************************************************************)
C11_AdvanceZeroesSecondAndMarksEdit ==
  [][pc = "run" =>
       LET s0 == RtcElapse(State, clock' - clock)
           s1 == Debounce(s0, hourLevel', minuteLevel', now')
           s2 == HourButton(s1, hourLevel', now')
           s3 == MinuteButton(s2, minuteLevel', now')
       IN  /\ Did(s2.trace, "advanceHour") =>
                (s2.currentSecond = 0 /\ s2.timeLocallyUpdated)
           /\ Did(s3.trace, "advanceMinute") =>
                (s3.currentSecond = 0 /\ s3.timeLocallyUpdated)
           /\ (Did(trace', "advanceHour") \/ Did(trace', "advanceMinute")) =>
                (currentSecond' = 0 /\ timeLocallyUpdated')]_vars

\* the minute button fired a hold-repeat event and the hour button its first
C11_Witness ==
  /\ minuteEvents >= 2
  /\ minuteButtonBeingHeld
  /\ Did(trace, "advanceMinute")
  /\ hourEvents = 1
  /\ Did(trace, "advanceHour")

(***************************************************************************)
(* C12: the timers tolerate a wrap of the millisecond counter between      *)
(* arming and expiry: with or without a wrap, no hold-repeat event fires   *)
(* sooner than the repeat period after that button's previous event, and   *)
(* no ClockSource write fires sooner than the inaction delay after the     *)
(* most recent advance event.                                              *)
(***************************************************************************)
C12_TimersTolerateWrap ==
  [][pc = "run" =>
       /\ (hourEvents' > hourEvents /\ hourButtonBeingHeld) =>
            clock' - lastHourEventAt >= BUTTON_HOLD_ACTION_REPEAT_PERIOD
       /\ (minuteEvents' > minuteEvents /\ minuteButtonBeingHeld) =>
            clock' - lastMinuteEventAt >= BUTTON_HOLD_ACTION_REPEAT_PERIOD
       /\ Did(trace', "rtc.adjust") =>
            clock' - LastAdvanceAt' >= BUTTON_INACTION_RTC_UPDATE_DELAY]_vars

(***************************************************************************)
(* C13: any two consecutive ClockSource reads into the canonical time are  *)
(* at least the poll interval apart, the read of setup() included: the     *)
(* first read of loop() comes no sooner than the poll interval after the   *)
(* one of setup().                                                         *)
(***************************************************************************)
C13_ReadsPollIntervalApart ==
  /\ pc = "run" => lastReadAt >= 0
  /\ prevReadAt >= 0 => lastReadAt - prevReadAt >= RTC_QUERY_PERIOD_MILLIS

\* loop() has read twice; the second read came in the first call that found
\* more than the poll interval elapsed
C13_Witness ==
  /\ ReadTime
  /\ prevReadAt > REGISTER_STROBE_DURATION_MS
  /\ lastReadAt = clock
  /\ lastReadAt - prevReadAt <= RTC_QUERY_PERIOD_MILLIS + BUTTON_DEBOUNCE_MS + 1

(***************************************************************************)
(* C14: while no local edit is pending the canonical time follows the RTC. *)
(* A call of loop() that starts and ends with timeLocallyUpdated false and *)
(* finds more than the poll interval elapsed since the last read reads the *)
(* RTC once: currentHour, currentMinute and currentSecond all become the   *)
(* time read, the display is rendered from it, and lastRTCQueryTime        *)
(* becomes the time of that call.                                          *)
(***************************************************************************)
C14_PollReplacesWholeTime ==
  [][(/\ pc = "run"
      /\ ticks' = ticks + 1
      /\ ~timeLocallyUpdated /\ ~timeLocallyUpdated'
      /\ clock' - lastReadAt > RTC_QUERY_PERIOD_MILLIS) =>
       /\ trace' = <<"rtc.now(time)">>
       /\ canonical' = RtcTime'
       /\ localWordRegister' = updateLocalWordRegister(RtcTime'[1], RtcTime'[2])
       /\ lastRTCQueryTime' = now'
       /\ lastReadAt' = clock']_vars

\* a poll has moved the canonical time on from the time read at startup,
\* past midnight and with the seconds changed
C14_Witness ==
  /\ ReadTime
  /\ ~Wrote
  /\ hourEvents = 0 /\ minuteEvents = 0
  /\ rtcDate.plus = 1
  /\ currentHour = 0 /\ currentMinute = 0 /\ currentSecond >= 30

(***************************************************************************)
(* C15: if the RTC, answering, reports lost power at startup, then when    *)
(* setup() returns the RTC has been written once, with the reset epoch     *)
(* 2017-01-01 00:00:00, the canonical time is 00:00:00, timeLocallyUpdated *)
(* is false and the display shows the encoding of 00:00; if it reports no  *)
(* lost power, setup() writes nothing to the RTC.                          *)
(***************************************************************************)
C15_LostPowerResetsToEpoch ==
  [][(pc = "boot" /\ pc' = "run" /\ rtcAvailable) =>
       IF rtcLostPower
         THEN /\ trace' = <<"rtc.adjust", "rtc.now(time)">>
              /\ lastWrite'.date = [base |-> <<2017, 1, 1>>, plus |-> 0]
              /\ lastWrite'.args = <<0, 0, 0>>
              /\ rtcDate' = [base |-> <<2017, 1, 1>>, plus |-> 0]
              /\ RtcTime' = <<0, 0, 0>>
              /\ canonical' = <<0, 0, 0>>
              /\ ~timeLocallyUpdated'
              /\ localWordRegister' = {TWELVE_H, OCLOCK}
              /\ localWordRegister' = updateLocalWordRegister(0, 0)
         ELSE /\ ~Did(trace', "rtc.adjust")
              /\ rtcDate' = rtcDate
              /\ lastWrite' = lastWrite]_vars

\* setup() has returned after resetting an RTC that had lost power
C15_Witness ==
  /\ pc = "run"
  /\ ticks = 0
  /\ trace = <<"rtc.adjust", "rtc.now(time)">>
  /\ ~rtcLostPower
  /\ rtcDate.base = <<RTC_RESET_YEAR, RTC_RESET_MONTH, RTC_RESET_DAY>>

(***************************************************************************)
(* C16: a ClockSource read that fails (the RTC does not answer) leaves the *)
(* canonical time at its last known value, and rendering continues from    *)
(* it: the call of setup() or loop() in which the read fails changes none  *)
(* of currentHour, currentMinute and currentSecond.                        *)
(***************************************************************************)
C16_FailedReadKeepsTime ==
  [][(/\ pc = "boot" \/ ticks' = ticks + 1
      /\ ~rtcAvailable
      /\ Did(trace', "rtc.now(time)")) =>
       /\ canonical' = canonical
       /\ localWordRegister' =
            updateLocalWordRegister(currentHour', currentMinute')]_vars

(***************************************************************************)
(* C17: timeLocallyUpdated is cleared only by a write that succeeded: a    *)
(* call of loop() whose write to the RTC fails (the RTC does not answer)   *)
(* leaves the edit pending.                                                *)
(***************************************************************************)
C17_FailedWriteStaysPending ==
  [][(/\ pc = "run" /\ ticks' = ticks + 1
      /\ ~rtcAvailable
      /\ Did(trace', "rtc.adjust")) =>
       timeLocallyUpdated']_vars

(***************************************************************************)
(* C18: for every hour in 0..23 and minute in 0..59 the register rendered  *)
(* by updateLocalWordRegister(hour, minute) holds exactly one of the       *)
(* twelve hour words, OCLOCK iff minute is in 0..4, PAST iff minute is in  *)
(* 5..34 and TO iff minute is in 35..59.                                   *)
(***************************************************************************)
C18_OneHourWordAndConnective ==
  pc = "rendered" =>
    /\ Cardinality(localWordRegister \cap HourWords) = 1
    /\ OCLOCK \in localWordRegister <=> currentMinute \in 0..4
    /\ PAST \in localWordRegister <=> currentMinute \in 5..34
    /\ TO \in localWordRegister <=> currentMinute \in 35..59

\* midnight, rendered as "twelve o'clock"
C18_Witness ==
  /\ pc = "rendered"
  /\ currentHour = 0 /\ currentMinute = 4
  /\ localWordRegister = {TWELVE_H, OCLOCK}

(***************************************************************************)
(* C19: the minute words rendered are those of the five-minute bucket      *)
(* table (bucket = minute div 5): none, FIVE_M, TEN_M, QUARTER_M,          *)
(* TWENTY_M, TWENTY_M + FIVE_M, HALF_M, TWENTY_M + FIVE_M, TWENTY_M,       *)
(* QUARTER_M, TEN_M, FIVE_M; MINUTES is never set; minutes 25..29 and      *)
(* 35..39 give the same minute words.                                      *)
(***************************************************************************)
BucketTable ==
  <<{}, {FIVE_M}, {TEN_M}, {QUARTER_M}, {TWENTY_M}, {TWENTY_M, FIVE_M},
    {HALF_M}, {TWENTY_M, FIVE_M}, {TWENTY_M}, {QUARTER_M}, {TEN_M}, {FIVE_M}>>

C19_MinuteWordsFollowBucketTable ==
  pc = "rendered" =>
    /\ localWordRegister \cap (MinuteWords \cup {MINUTES}) =
         BucketTable[(currentMinute \div 5) + 1]
    /\ currentMinute \in (25..29) \cup (35..39) =>
         localWordRegister \cap MinuteWords = {TWENTY_M, FIVE_M}

\* "twenty five past"
C19_Witness ==
  /\ pc = "rendered"
  /\ currentMinute = 27
  /\ {TWENTY_M, FIVE_M, PAST} \subseteq localWordRegister

(***************************************************************************)
(* C20: the hour word rendered is the word of h = hour mod 12 (0 taken as  *)
(* 12) when minute < 35, and the word of the hour after h (12 followed by  *)
(* 1) when minute >= 35; hour 0 and hour 12 render the same words for      *)
(* every minute, and 0:40 and 12:40 both render ONE_H with TO.             *)
(***************************************************************************)
\* the bit of the word of hour n of the dial, n in 1..12
WordOfHour(n) == ONE_H - (n - 1)

C20_HourWordOfTwelveHourDial ==
  pc = "rendered" =>
    LET h == IF currentHour % 12 = 0 THEN 12 ELSE currentHour % 12
        shown == IF currentMinute < 35 THEN h ELSE (h % 12) + 1
    IN  /\ localWordRegister \cap HourWords = {WordOfHour(shown)}
        /\ currentHour \in {0, 12} =>
             /\ localWordRegister = updateLocalWordRegister(0, currentMinute)
             /\ localWordRegister = updateLocalWordRegister(12, currentMinute)
        /\ (currentHour \in {0, 12} /\ currentMinute = 40) =>
             {ONE_H, TO} \subseteq localWordRegister

\* 0:40, rendered as "twenty to one"
C20_Witness ==
  /\ pc = "rendered"
  /\ currentHour = 0 /\ currentMinute = 40
  /\ localWordRegister = {TWENTY_M, TO, ONE_H}

(***************************************************************************)
(* C21: updateLocalWordRegister has no hidden state: the register it       *)
(* leaves depends on (hour, minute) alone, not on what the register held   *)
(* before or on any earlier call.  A second call, made on the register any *)
(* first call left, leaves the one register that belongs to its own hour   *)
(* and minute (the minute words of the bucket, the connective, the hour    *)
(* word); with the same input as the first call it leaves the register     *)
(* unchanged.                                                              *)
(***************************************************************************)
WordsOf(hour, minute) ==
  LET h == IF hour % 12 = 0 THEN 12 ELSE hour % 12
      shown == IF minute < 35 THEN h ELSE (h % 12) + 1
      connective == IF minute < 5 THEN OCLOCK
                    ELSE IF minute < 35 THEN PAST ELSE TO
  IN  BucketTable[(minute \div 5) + 1] \cup {connective, WordOfHour(shown)}

C21_EncoderHasNoHiddenState ==
  [][(pc = "rendered" /\ pc' = "rerendered") =>
       /\ localWordRegister' = WordsOf(currentHour', currentMinute')
       /\ (currentHour' = currentHour /\ currentMinute' = currentMinute) =>
            localWordRegister' = localWordRegister]_vars

\* 12:00 rendered by a second call, on the register a first call left
C21_Witness ==
  /\ pc = "rerendered"
  /\ currentHour = 12 /\ currentMinute = 0
  /\ localWordRegister = {TWELVE_H, OCLOCK}

(***************************************************************************)
(* C22: at the end of every call of handleTimeAdjustButtons, a button in   *)
(* the held state implies a pending edit: hourButtonBeingHeld or           *)
(* minuteButtonBeingHeld true implies timeLocallyUpdated true.  Checked on *)
(* the state the handler leaves inside loop() and on the state loop()      *)
(* leaves.                                                                 *)
(***************************************************************************)
C22_HeldImpliesPending ==
  [][(pc = "run" /\ ticks' = ticks + 1) =>
       LET s == handleTimeAdjustButtons(RtcElapse(State, clock' - clock),
                                        hourLevel', minuteLevel', now')
       IN  /\ (s.hourButtonBeingHeld \/ s.minuteButtonBeingHeld) =>
                s.timeLocallyUpdated
           /\ (hourButtonBeingHeld' \/ minuteButtonBeingHeld') =>
                timeLocallyUpdated']_vars

\* the minute button is still held, past the deadline its first event
\* armed, across the wrap of the counter; the edit is still pending
C22_Witness ==
  /\ minuteButtonBeingHeld
  /\ ~hourButtonBeingHeld
  /\ timeLocallyUpdated
  /\ ~Did(trace, "rtc.adjust")
  /\ minuteEvents >= 2
  /\ clock >= MillisModulus - 1

(***************************************************************************)
(* C23: when setup() returns and when each call of loop() returns, the     *)
(* displayed register is the encoding of the canonical time:               *)
(* localWordRegister is what updateLocalWordRegister(currentHour,          *)
(* currentMinute) produces.                                                *)
(***************************************************************************)
C23_RegisterShowsCanonicalTime ==
  pc = "run" =>
    localWordRegister = updateLocalWordRegister(currentHour, currentMinute)

\* a poll has moved the display on after both buttons had changed the time
C23_Witness ==
  /\ ReadTime
  /\ hourEvents > 0 /\ minuteEvents > 0
  /\ localWordRegister # {TWELVE_H, OCLOCK}
  /\ prevReadAt >= 0

(***************************************************************************)
(* C25: in WordClock.ino, for every hour in 0..23 and minute in 0..59 the  *)
(* register rendered by updateLocalWordRegister(hour, minute) holds        *)
(* exactly one of the twelve hour words, and holds OCLOCK iff minute is in *)
(* 0..4.                                                                   *)
(***************************************************************************)
C25_OneHourWordAndOclock ==
  pc = "rendered" =>
    /\ Cardinality(localWordRegister \cap HourWords) = 1
    /\ OCLOCK \in localWordRegister <=> currentMinute \in 0..4

(***************************************************************************)
(* C24: in WordClock.ino a button whose level goes LOW and stays steadily  *)
(* LOW for longer than the debounce interval (BUTTON_DEBOUNCE_MILLIS) has  *)
(* fired an advance event on the canonical time and is in the held state.  *)
(***************************************************************************)
C24_PressIsRecognised ==
  /\ (hourLevel = LOW /\ clock - hourLevelSince > BUTTON_DEBOUNCE_MILLIS) =>
       (hourEvents >= 1 /\ hourButtonBeingHeld)
  /\ (minuteLevel = LOW /\ clock - minuteLevelSince > BUTTON_DEBOUNCE_MILLIS) =>
       (minuteEvents >= 1 /\ minuteButtonBeingHeld)

====
